---- MODULE Spec2Model ----
(***************************************************************************)
(* Model of the NFT event reconciliation loop of teleport-gramine-rs:      *)
(* subscribe_to_nft_events (src/src/actions/nft.rs), one run of the async  *)
(* function from its subscription to its return.  Every await of the loop  *)
(* body is one step, so that the state between two store calls is a state  *)
(* of the model.  The HTTP handlers callback and mint                      *)
(* (src/src/endpoints.rs) run beside it and share its mutex.               *)
(*                                                                         *)
(* Identifiers.  The column NftIndex.userId is read as the creator's       *)
(* User.id (nft.rs:91) and written with a chain address (nft.rs:163), so   *)
(* both kinds of value live in one domain here: a member of Users stands   *)
(* for a user and for the address that user mints to (endpoints.rs:152-157 *)
(* mints to the caller's own address), NonUserAddress is an address with   *)
(* no User row.                                                            *)
(***************************************************************************)
EXTENDS Naturals, FiniteSets, Sequences, TLC

\* ---------------------------------------------------------------- bounds
MaxToken == 2

MaxEvents == 4

\* ------------------------------------------------------- program constants
\* A token id is the decimal digits `tokenId.to_string()` yields (nft.rs:83,
\* 137): the contract's uint256 has values no machine integer holds.
\* i32::MAX, the largest value `parse::<i32>()` accepts
I32MaxDigits == <<2, 1, 4, 7, 4, 8, 3, 6, 4, 7>>

ZeroAddress == "0x0000000000000000000000000000000000000000"

NonUserAddress == "0xa3"

Users == {"u1", "u2"}

Addresses == Users \cup {NonUserAddress, ZeroAddress}

TokenIds == {<<d>> : d \in 1..MaxToken}

\* a token id the contract's uint256 can hold and an i32 cannot: 2^31
WideTokenIds == {<<2, 1, 4, 7, 4, 8, 3, 6, 4, 8>>}

AllTokenIds == TokenIds \cup WideTokenIds

\* what the chain fixed when token t was minted: mintTo(recipient, x_id, policy)
CreatorOf(t) == IF t[Len(t)] % 2 = 1 THEN "u1" ELSE "u2"

XIdOf(u) == IF u = "u1" THEN "x1" ELSE "x2"

TwitterUserNameOf(u) == IF u = "u1" THEN "@u1" ELSE "@u2"

TxHashOf(t) == <<"0xtx", t>>

TxHashes == {TxHashOf(t) : t \in TokenIds}

ContentOf(t) == <<"content", t>>

PolicyOf(t) == <<"policy", t>>

\* users whose account linkage completed before the engine started
LinkedXIds == {XIdOf("u1")}

NoValue == "none"

NoTweet == <<"tweet", <<>>, 0>>

\* `let tweet_id = "";` (nft.rs:94): the empty publication reference
EmptyTweetId == <<>>

\* ------------------------------------------------------------- raw logs
\* The events of the contract ABI (abi/nft.json through sol!): the three the
\* loop handles and one it does not (Approval), plus a signature the ABI
\* does not know.
KnownSignatures == {"RedeemTweet", "NewTokenData", "Transfer", "Approval"}

RawLog(sig, wf, t, from, to) ==
    [sig |-> sig, wellFormed |-> wf, transaction_hash |-> TxHashOf(t),
     tokenId |-> t, from |-> from, to |-> to,
     x_id |-> XIdOf(CreatorOf(t)), content |-> ContentOf(t), policy |-> PolicyOf(t)]

Logs ==
    {RawLog("NewTokenData", TRUE, t, ZeroAddress, CreatorOf(t)) : t \in TokenIds}
    \cup {RawLog("RedeemTweet", TRUE, t, ZeroAddress, ZeroAddress) : t \in TokenIds}
    \cup {RawLog("Transfer", TRUE, t, ZeroAddress, CreatorOf(t)) : t \in TokenIds}
    \cup {RawLog("Transfer", TRUE, t, CreatorOf(t), to) :
             t \in TokenIds, to \in {ZeroAddress, NonUserAddress, "u2"}}
    \cup {RawLog("Approval", TRUE, <<1>>, "u1", "u2"),
          RawLog("Unknown", TRUE, <<1>>, "u1", "u2"),
          RawLog("RedeemTweet", FALSE, <<1>>, ZeroAddress, ZeroAddress)}

\* logs about a token whose id is beyond i32
WideLogs ==
    {RawLog("RedeemTweet", TRUE, t, ZeroAddress, ZeroAddress) : t \in WideTokenIds}
    \cup {RawLog("Transfer", TRUE, t, CreatorOf(t), to) :
             t \in WideTokenIds, to \in {ZeroAddress, NonUserAddress}}

NoLog == RawLog("Unknown", FALSE, <<1>>, ZeroAddress, ZeroAddress)

\* NFTEvents::decode_raw_log(topics, data, validate = true): Err for a first
\* topic that is no event of the ABI and Err for a payload that does not fit
\* the event's layout; Ok(event) otherwise.
decode_raw_log(l) ==
    IF l.sig \notin KnownSignatures THEN [ok |-> FALSE, error |-> "unknown_selector"]
    ELSE IF ~l.wellFormed THEN [ok |-> FALSE, error |-> "bad_layout"]
    ELSE [ok |-> TRUE, error |-> NoValue]

\* `tokenId.to_string().parse::<i32>()`: Ok up to i32::MAX, Err (and the
\* unwrap panics) from 2^31 on
ParseI32Ok(t) ==
    \/ Len(t) < Len(I32MaxDigits)
    \/ /\ Len(t) = Len(I32MaxDigits)
       /\ \A i \in 1..Len(t) :
             (\A j \in 1..(i - 1) : t[j] = I32MaxDigits[j]) => t[i] <= I32MaxDigits[i]

\* the i32 the parse yields for digits it accepts: the key of the token's row
RECURSIVE ParseI32(_)
ParseI32(t) ==
    IF t = <<>> THEN 0
    ELSE 10 * ParseI32(SubSeq(t, 1, Len(t) - 1)) + t[Len(t)]

\* ---------------------------------------------------------------- state
VARIABLES
    pc,               \* the await the loop is suspended at
    result,           \* what subscribe_to_nft_events returned, "running" before
    lock,             \* holder of the Arc<Mutex<db>>
    log,              \* the log the loop body is handling
    safe,             \* local `safe`
    user,             \* local `user` (Option)
    tweet_id,         \* local `tweet_id` returned by raw_tweet
    row,              \* locals creator_user_id, twitter_user_name
    NftIndex,         \* table "NftIndex": tokenId -> (userId, twitterUserName)
    RedeemedIndex,    \* table "RedeemedIndex"
    haveBeenRedeemed, \* column "User"."haveBeenRedeemed"
    pending_nfts,     \* the pending-mint register of the TeleportDB
    tweets,           \* the tweets add_tweet recorded
    posted,           \* tweets the social platform received, per token
    pulled,           \* logs taken from the stream so far
    shutdown,         \* a shutdown has been requested of the process
    x_users,          \* x ids of the users the TeleportDB holds (linked accounts)
    http_pc,          \* the await the HTTP handler in progress is suspended at
    x_info,           \* callback's local `x_info.id`
    pre               \* the stores as they were when `log` was pulled

locals == <<safe, user, tweet_id, row>>

web == <<x_users, http_pc, x_info>>

stores == <<NftIndex, RedeemedIndex, haveBeenRedeemed, pending_nfts, tweets, posted>>

vars == <<pc, result, lock, log, safe, user, tweet_id, row, NftIndex, RedeemedIndex,
          haveBeenRedeemed, pending_nfts, tweets, posted, pulled, shutdown, pre,
          x_users, http_pc, x_info>>

Snapshot ==
    [NftIndex |-> NftIndex, RedeemedIndex |-> RedeemedIndex,
     haveBeenRedeemed |-> haveBeenRedeemed, pending_nfts |-> pending_nfts,
     tweets |-> tweets, posted |-> posted]

NoRow == [creator_user_id |-> NoValue, twitter_user_name |-> NoValue]

Init ==
    /\ pc = "next"
    /\ result = "running"
    /\ lock = "free"
    /\ log = NoLog
    /\ safe = FALSE
    /\ user = NoValue
    /\ tweet_id = NoTweet
    /\ row = NoRow
    /\ NftIndex = <<>>
    /\ RedeemedIndex = {}
    /\ haveBeenRedeemed = [u \in Users |-> 0]
    /\ pending_nfts = [h \in TxHashes |->
                          [creatorUserId |-> CreatorOf(h[2]),
                           twitterUserName |-> TwitterUserNameOf(CreatorOf(h[2]))]]
    /\ tweets = {}
    /\ posted = [t \in AllTokenIds |-> 0]
    /\ pulled = 0
    /\ shutdown = FALSE
    /\ x_users = LinkedXIds
    /\ http_pc = "idle"
    /\ x_info = NoValue
    /\ pre = [NftIndex |-> <<>>, RedeemedIndex |-> {},
              haveBeenRedeemed |-> [u \in Users |-> 0],
              pending_nfts |-> [h \in TxHashes |->
                          [creatorUserId |-> CreatorOf(h[2]),
                           twitterUserName |-> TwitterUserNameOf(CreatorOf(h[2]))]],
              tweets |-> {}, posted |-> [t \in AllTokenIds |-> 0]]

\* ------------------------------------------------------------- helpers
Remove(f, k) == [x \in DOMAIN f \ {k} |-> f[x]]

Put(f, k, v) == [x \in DOMAIN f \cup {k} |-> IF x = k THEN v ELSE f[x]]

\* `?` on an Err, or a panic: the function is left, every guard it holds is dropped
Return(r) ==
    /\ pc' = "returned"
    /\ result' = r
    /\ lock' = IF lock = "engine" THEN "free" ELSE lock

\* the loop body ended for this log: back to `stream.next().await`
Continue ==
    /\ pc' = "next"
    /\ UNCHANGED result

\* ------------------------------------------------------------ the loop
\* where the match sends a decoded log (nft.rs:52-54, 120, 134-137, 171)
FirstStep(l) ==
    IF ~decode_raw_log(l).ok THEN "next"
    ELSE IF l.sig = "RedeemTweet" THEN "is_tweet_safe"
    ELSE IF l.sig = "NewTokenData" THEN "promote_lock"
    ELSE IF l.sig = "Transfer"
         THEN (IF ParseI32Ok(l.tokenId) THEN "transfer_connect" ELSE "returned")
    ELSE "next"

\* StreamNext with each log handed to a task of its own: the next log is
\* pulled while the last one is still being handled
StreamNext_Spawned ==
    /\ pc # "returned"
    /\ pulled < MaxEvents
    /\ \E l \in Logs :
          /\ log' = l
          /\ pc' = FirstStep(l)
          /\ result' = IF FirstStep(l) = "returned" THEN "panic" ELSE result
    /\ pulled' = pulled + 1
    /\ pre' = Snapshot
    /\ safe' = FALSE
    /\ user' = NoValue
    /\ tweet_id' = NoTweet
    /\ row' = NoRow
    /\ UNCHANGED <<lock, stores, shutdown>>
    /\ UNCHANGED web

StreamNext ==
    /\ pc = "next"
    /\ pulled < MaxEvents
    /\ \E l \in Logs :
          /\ log' = l
          /\ pc' = FirstStep(l)
          /\ result' = IF FirstStep(l) = "returned" THEN "panic" ELSE result
    /\ pulled' = pulled + 1
    /\ pre' = Snapshot
    /\ safe' = FALSE
    /\ user' = NoValue
    /\ tweet_id' = NoTweet
    /\ row' = NoRow
    /\ UNCHANGED <<lock, stores, shutdown>>
    /\ UNCHANGED web

\* the stream delivers a log about a token id beyond i32 (nft.rs:51-53)
StreamNextWide ==
    /\ pc = "next"
    /\ pulled < MaxEvents
    /\ \E l \in WideLogs :
          /\ log' = l
          /\ pc' = FirstStep(l)
          /\ result' = IF FirstStep(l) = "returned" THEN "panic" ELSE result
    /\ pulled' = pulled + 1
    /\ pre' = Snapshot
    /\ safe' = FALSE
    /\ user' = NoValue
    /\ tweet_id' = NoTweet
    /\ row' = NoRow
    /\ UNCHANGED <<lock, stores, shutdown>>
    /\ UNCHANGED web

StreamEnd ==
    /\ pc = "next"
    /\ Return("Ok")
    /\ UNCHANGED <<log, locals, stores, pulled, shutdown, pre>>
    /\ UNCHANGED web

\* ------------------------------------------- RedeemTweet (nft.rs:54-119)
\* IsTweetSafe with the verdict computed but not consulted
IsTweetSafe_Ignored ==
    /\ pc = "is_tweet_safe"
    /\ \E s \in BOOLEAN : safe' = s
    /\ pc' = "user_lock"
    /\ UNCHANGED <<result, lock, log, user, tweet_id, row, stores, pulled, shutdown, pre>>
    /\ UNCHANGED web

\* nft.rs:55-56: the safety oracle answers; `if safe` guards the whole branch
IsTweetSafe ==
    /\ pc = "is_tweet_safe"
    /\ \E s \in BOOLEAN :
          /\ safe' = s
          /\ IF s THEN pc' = "user_lock" /\ UNCHANGED result ELSE Continue
    /\ UNCHANGED <<lock, log, user, tweet_id, row, stores, pulled, shutdown, pre>>
    /\ UNCHANGED web

\* nft.rs:57
LockForUser ==
    /\ pc = "user_lock"
    /\ lock = "free"
    /\ lock' = "engine"
    /\ pc' = "get_user_by_x_id"
    /\ UNCHANGED <<result, log, locals, stores, pulled, shutdown, pre>>
    /\ UNCHANGED web

\* nft.rs:58-60: `.ok()` turns a failed lookup into None; the guard is dropped
GetUserByXId ==
    /\ pc = "get_user_by_x_id"
    /\ \E found \in {log.x_id, NoValue} :
          /\ found = NoValue \/ found \in x_users
          /\ user' = found
          /\ pc' = IF found = NoValue THEN "connect" ELSE "raw_tweet"
    /\ lock' = "free"
    /\ UNCHANGED <<result, log, safe, tweet_id, row, stores, pulled, shutdown, pre>>
    /\ UNCHANGED web

\* nft.rs:61-65: the tweet is sent; `?` leaves the function when it fails
RawTweet ==
    /\ pc = "raw_tweet"
    /\ \/ /\ posted' = [posted EXCEPT ![log.tokenId] = @ + 1]
          /\ tweet_id' = <<"tweet", log.tokenId, posted[log.tokenId] + 1>>
          /\ pc' = "tweet_lock"
          /\ UNCHANGED <<result, lock>>
       \/ /\ Return("publish_error")
          /\ UNCHANGED <<posted, tweet_id>>
    /\ UNCHANGED <<log, safe, user, row, NftIndex, RedeemedIndex, haveBeenRedeemed,
                   pending_nfts, tweets, pulled, shutdown, pre>>
    /\ UNCHANGED web

\* nft.rs:67
LockForTweet ==
    /\ pc = "tweet_lock"
    /\ lock = "free"
    /\ lock' = "engine"
    /\ pc' = "add_tweet"
    /\ UNCHANGED <<result, log, locals, stores, pulled, shutdown, pre>>
    /\ UNCHANGED web

\* nft.rs:68-69
AddTweet ==
    /\ pc = "add_tweet"
    /\ \/ /\ tweets' = tweets \cup {<<log.tokenId, tweet_id>>}
          /\ lock' = "free"
          /\ pc' = "connect"
          /\ UNCHANGED result
       \/ /\ Return("add_tweet_error")
          /\ UNCHANGED tweets
    /\ UNCHANGED <<log, locals, NftIndex, RedeemedIndex, haveBeenRedeemed,
                   pending_nfts, posted, pulled, shutdown, pre>>
    /\ UNCHANGED web

\* nft.rs:71-83: a fresh connection, then the token id as the i32 key
Connect ==
    /\ pc = "connect"
    /\ \/ IF ParseI32Ok(log.tokenId)
            THEN pc' = "query_one" /\ UNCHANGED <<result, lock>>
            ELSE Return("panic")
       \/ Return("connect_error")
    /\ UNCHANGED <<log, locals, stores, pulled, shutdown, pre>>
    /\ UNCHANGED web

\* QueryOne as query_opt with a default: a missing row is not an error
QueryOne_RowOptional ==
    /\ pc = "query_one"
    /\ \/ /\ row' = IF log.tokenId \in DOMAIN NftIndex
                    THEN [creator_user_id |-> NftIndex[log.tokenId].userId,
                          twitter_user_name |-> NftIndex[log.tokenId].twitterUserName]
                    ELSE NoRow
          /\ pc' = "insert_redeemed"
          /\ UNCHANGED <<result, lock>>
       \/ Return("db_error") /\ UNCHANGED row
    /\ UNCHANGED <<log, safe, user, tweet_id, stores, pulled, shutdown, pre>>
    /\ UNCHANGED web

\* nft.rs:85-92: query_one is an Err unless exactly one row comes back
QueryOne ==
    /\ pc = "query_one"
    /\ \/ IF log.tokenId \in DOMAIN NftIndex
            THEN /\ row' = [creator_user_id |-> NftIndex[log.tokenId].userId,
                            twitter_user_name |-> NftIndex[log.tokenId].twitterUserName]
                 /\ pc' = "insert_redeemed"
                 /\ UNCHANGED <<result, lock>>
            ELSE Return("row_count_error") /\ UNCHANGED row
       \/ Return("db_error") /\ UNCHANGED row
    /\ UNCHANGED <<log, safe, user, tweet_id, stores, pulled, shutdown, pre>>
    /\ UNCHANGED web

\* nft.rs:94-103: tweet_id is rebound to "" before the INSERT; id is a new cuid
InsertRedeemed ==
    /\ pc = "insert_redeemed"
    /\ \/ /\ RedeemedIndex' = RedeemedIndex \cup
                {[id |-> Cardinality(RedeemedIndex) + 1,
                  creatorUserId |-> row.creator_user_id,
                  tokenId |-> log.tokenId,
                  tweetId |-> EmptyTweetId,
                  twitterUserName |-> row.twitter_user_name,
                  safeguard |-> log.policy,
                  content |-> log.content]}
          /\ pc' = "update_user"
          /\ UNCHANGED <<result, lock>>
       \/ Return("db_error") /\ UNCHANGED RedeemedIndex
    /\ UNCHANGED <<log, locals, NftIndex, haveBeenRedeemed, pending_nfts, tweets,
                   posted, pulled, shutdown, pre>>
    /\ UNCHANGED web

\* nft.rs:105-108: UPDATE ... WHERE id = creator_user_id; no such user, no row changed
UpdateUser ==
    /\ pc = "update_user"
    /\ \/ /\ haveBeenRedeemed' =
                [u \in Users |-> IF u = row.creator_user_id
                                 THEN haveBeenRedeemed[u] + 1
                                 ELSE haveBeenRedeemed[u]]
          /\ pc' = "delete_nft"
          /\ UNCHANGED <<result, lock>>
       \/ Return("db_error") /\ UNCHANGED haveBeenRedeemed
    /\ UNCHANGED <<log, locals, NftIndex, RedeemedIndex, pending_nfts, tweets,
                   posted, pulled, shutdown, pre>>
    /\ UNCHANGED web

\* nft.rs:110-117
DeleteNft ==
    /\ pc = "delete_nft"
    /\ \/ /\ NftIndex' = Remove(NftIndex, log.tokenId)
          /\ Continue
          /\ UNCHANGED lock
       \/ Return("db_error") /\ UNCHANGED NftIndex
    /\ UNCHANGED <<log, locals, RedeemedIndex, haveBeenRedeemed, pending_nfts, tweets,
                   posted, pulled, shutdown, pre>>
    /\ UNCHANGED web

\* ------------------------------------------ NewTokenData (nft.rs:120-133)
\* nft.rs:121
LockForPromote ==
    /\ pc = "promote_lock"
    /\ lock = "free"
    /\ lock' = "engine"
    /\ pc' = "promote_pending_nft"
    /\ UNCHANGED <<result, log, locals, stores, pulled, shutdown, pre>>
    /\ UNCHANGED web

\* TeleportDB::promote_pending_nft(tx_hash, token_id): the pending mint of
\* tx_hash becomes the token's row and leaves the register; without a pending
\* mint nothing changes and the call is Ok.
promote_pending_nft(tx_hash, token_id) ==
    IF tx_hash \in DOMAIN pending_nfts
    THEN /\ NftIndex' = Put(NftIndex, token_id,
                            [userId |-> pending_nfts[tx_hash].creatorUserId,
                             twitterUserName |-> pending_nfts[tx_hash].twitterUserName])
         /\ pending_nfts' = Remove(pending_nfts, tx_hash)
    ELSE UNCHANGED <<NftIndex, pending_nfts>>

\* PromotePendingNft treating a hash without a pending mint as an error
PromotePendingNft_MissingIsError ==
    /\ pc = "promote_pending_nft"
    /\ \/ /\ log.transaction_hash \in DOMAIN pending_nfts
          /\ promote_pending_nft(log.transaction_hash, log.tokenId)
          /\ lock' = "free"
          /\ Continue
       \/ /\ log.transaction_hash \notin DOMAIN pending_nfts
          /\ Return("not_found_error")
          /\ UNCHANGED <<NftIndex, pending_nfts>>
       \/ Return("promote_error") /\ UNCHANGED <<NftIndex, pending_nfts>>
    /\ UNCHANGED <<log, locals, RedeemedIndex, haveBeenRedeemed, tweets, posted,
                   pulled, shutdown, pre>>
    /\ UNCHANGED web

\* nft.rs:122-132
PromotePendingNft ==
    /\ pc = "promote_pending_nft"
    /\ \/ /\ promote_pending_nft(log.transaction_hash, log.tokenId)
          /\ lock' = "free"
          /\ Continue
       \/ Return("promote_error") /\ UNCHANGED <<NftIndex, pending_nfts>>
    /\ UNCHANGED <<log, locals, RedeemedIndex, haveBeenRedeemed, tweets, posted,
                   pulled, shutdown, pre>>
    /\ UNCHANGED web

\* ---------------------------------------------- Transfer (nft.rs:134-170)
\* nft.rs:139-153, 160: the connection, then the branch on from and to
TransferConnect ==
    /\ pc = "transfer_connect"
    /\ \/ /\ pc' = IF log.from = ZeroAddress THEN "next"
                   ELSE IF log.to = ZeroAddress THEN "transfer_delete"
                   ELSE "transfer_update"
          /\ UNCHANGED <<result, lock>>
       \/ Return("connect_error")
    /\ UNCHANGED <<log, locals, stores, pulled, shutdown, pre>>
    /\ UNCHANGED web

\* TransferDelete requiring that a row was deleted
TransferDelete_RowRequired ==
    /\ pc = "transfer_delete"
    /\ \/ IF log.tokenId \in DOMAIN NftIndex
            THEN NftIndex' = Remove(NftIndex, log.tokenId) /\ Continue /\ UNCHANGED lock
            ELSE Return("row_count_error") /\ UNCHANGED NftIndex
       \/ Return("db_error") /\ UNCHANGED NftIndex
    /\ UNCHANGED <<log, locals, RedeemedIndex, haveBeenRedeemed, pending_nfts, tweets,
                   posted, pulled, shutdown, pre>>
    /\ UNCHANGED web

\* nft.rs:153-159: DELETE; no row deleted is still Ok
TransferDelete ==
    /\ pc = "transfer_delete"
    /\ \/ /\ NftIndex' = Remove(NftIndex, log.tokenId)
          /\ Continue
          /\ UNCHANGED lock
       \/ Return("db_error") /\ UNCHANGED NftIndex
    /\ UNCHANGED <<log, locals, RedeemedIndex, haveBeenRedeemed, pending_nfts, tweets,
                   posted, pulled, shutdown, pre>>
    /\ UNCHANGED web

\* TransferUpdate as an upsert: a token without a row gets one
TransferUpdate_Upsert ==
    /\ pc = "transfer_update"
    /\ \/ /\ NftIndex' = Put(NftIndex, log.tokenId,
                             [userId |-> log.to,
                              twitterUserName |->
                                 IF log.tokenId \in DOMAIN NftIndex
                                 THEN NftIndex[log.tokenId].twitterUserName
                                 ELSE ""])
          /\ Continue
          /\ UNCHANGED lock
       \/ Return("db_error") /\ UNCHANGED NftIndex
    /\ UNCHANGED <<log, locals, RedeemedIndex, haveBeenRedeemed, pending_nfts, tweets,
                   posted, pulled, shutdown, pre>>
    /\ UNCHANGED web

\* nft.rs:160-167: UPDATE "userId" = to; no row updated is still Ok
TransferUpdate ==
    /\ pc = "transfer_update"
    /\ \/ /\ NftIndex' = [t \in DOMAIN NftIndex |->
                            IF t = log.tokenId
                            THEN [NftIndex[t] EXCEPT !.userId = log.to]
                            ELSE NftIndex[t]]
          /\ Continue
          /\ UNCHANGED lock
       \/ Return("db_error") /\ UNCHANGED NftIndex
    /\ UNCHANGED <<log, locals, RedeemedIndex, haveBeenRedeemed, pending_nfts, tweets,
                   posted, pulled, shutdown, pre>>
    /\ UNCHANGED web

\* ------------------------------------- HTTP handlers (endpoints.rs:88-163)
\* The handlers share the Arc<Mutex<db>> with the engine.  One request is in
\* progress at a time here.  A panic (expect, unwrap, assert_eq!) unwinds the
\* handler and drops the guard it holds.
HttpPanic ==
    /\ http_pc' = "idle"
    /\ x_info' = NoValue
    /\ lock' = IF lock = "http" THEN "free" ELSE lock
    /\ UNCHANGED x_users

HttpUntouched ==
    UNCHANGED <<pc, result, log, locals, stores, pulled, shutdown, pre>>

\* endpoints.rs:96
CallbackLock ==
    /\ http_pc = "idle"
    /\ lock = "free"
    /\ lock' = "http"
    /\ http_pc' = "cb_get_user"
    /\ UNCHANGED <<x_users, x_info>>
    /\ HttpUntouched

\* endpoints.rs:97-101
CallbackGetUser ==
    /\ http_pc = "cb_get_user"
    /\ \/ http_pc' = "cb_authorize_token" /\ UNCHANGED <<lock, x_users, x_info>>
       \/ HttpPanic
    /\ HttpUntouched

\* endpoints.rs:103-106: the OAuth token exchange, awaited with the guard alive
CallbackAuthorizeToken ==
    /\ http_pc = "cb_authorize_token"
    /\ \/ http_pc' = "cb_get_user_x_info" /\ UNCHANGED <<lock, x_users, x_info>>
       \/ HttpPanic
    /\ HttpUntouched

\* endpoints.rs:107-108: the platform names the account; then gen_sk
CallbackGetUserXInfo ==
    /\ http_pc = "cb_get_user_x_info"
    /\ \/ /\ \E u \in Users : x_info' = XIdOf(u)
          /\ http_pc' = "cb_add_user"
          /\ UNCHANGED <<lock, x_users>>
       \/ HttpPanic
    /\ HttpUntouched

\* endpoints.rs:109-119
CallbackAddUser ==
    /\ http_pc = "cb_add_user"
    /\ \/ /\ x_users' = x_users \cup {x_info}
          /\ lock' = "free"
          /\ http_pc' = "cb_send_eth"
          /\ x_info' = NoValue
       \/ HttpPanic
    /\ HttpUntouched

\* endpoints.rs:121-138
CallbackSendEth ==
    /\ http_pc = "cb_send_eth"
    /\ http_pc' = "idle"
    /\ UNCHANGED <<lock, x_users, x_info>>
    /\ HttpUntouched

\* endpoints.rs:145
MintLock ==
    /\ http_pc = "idle"
    /\ lock = "free"
    /\ lock' = "http"
    /\ http_pc' = "mint_get_user"
    /\ UNCHANGED <<x_users, x_info>>
    /\ HttpUntouched

\* endpoints.rs:146-150
MintGetUser ==
    /\ http_pc = "mint_get_user"
    /\ \/ /\ lock' = "free"
          /\ http_pc' = "mint_nft"
          /\ UNCHANGED <<x_users, x_info>>
       \/ HttpPanic
    /\ HttpUntouched

\* endpoints.rs:152-162: the chain transaction, sent with the guard dropped
MintNft ==
    /\ http_pc = "mint_nft"
    /\ http_pc' = "idle"
    /\ UNCHANGED <<lock, x_users, x_info>>
    /\ HttpUntouched

\* ------------------------------------------------------- the environment
\* The operator asks the process to stop.  subscribe_to_nft_events takes
\* db, twitter_builder and ws_rpc_url (nft.rs:35-39) and reads nothing else,
\* so no step of the loop depends on this flag.
RequestShutdown ==
    /\ ~shutdown
    /\ result = "running"
    /\ shutdown' = TRUE
    /\ UNCHANGED <<pc, result, lock, log, locals, stores, pulled, pre>>
    /\ UNCHANGED web

Next ==
    \/ StreamNext
    \/ StreamEnd
    \/ IsTweetSafe
    \/ LockForUser
    \/ GetUserByXId
    \/ RawTweet
    \/ LockForTweet
    \/ AddTweet
    \/ Connect
    \/ QueryOne
    \/ InsertRedeemed
    \/ UpdateUser
    \/ DeleteNft
    \/ LockForPromote
    \/ PromotePendingNft
    \/ TransferConnect
    \/ TransferDelete
    \/ TransferUpdate
    \/ RequestShutdown
    \/ CallbackLock
    \/ CallbackGetUser
    \/ CallbackAuthorizeToken
    \/ CallbackGetUserXInfo
    \/ CallbackAddUser
    \/ CallbackSendEth
    \/ MintLock
    \/ MintGetUser
    \/ MintNft

Spec == Init /\ [][Next]_vars

\* the same engine on a stream that also carries token ids beyond i32
NextWide == Next \/ StreamNextWide

SpecWide == Init /\ [][NextWide]_vars

TypeOK ==
    /\ pc \in {"next", "returned", "is_tweet_safe", "user_lock", "get_user_by_x_id",
               "raw_tweet", "tweet_lock", "add_tweet", "connect", "query_one",
               "insert_redeemed", "update_user", "delete_nft", "promote_lock",
               "promote_pending_nft", "transfer_connect", "transfer_delete",
               "transfer_update"}
    /\ lock \in {"free", "engine", "http"}
    /\ http_pc \in {"idle", "cb_get_user", "cb_authorize_token", "cb_get_user_x_info",
                    "cb_add_user", "cb_send_eth", "mint_get_user", "mint_nft"}
    /\ (lock = "http") = (http_pc \in {"cb_get_user", "cb_authorize_token",
                                        "cb_get_user_x_info", "cb_add_user", "mint_get_user"})
    /\ DOMAIN NftIndex \subseteq TokenIds
    /\ DOMAIN pending_nfts \subseteq TxHashes
    /\ pulled \in 0..MaxEvents
    /\ (pc = "returned") = (result # "running")

\* ------------------------------------------------- vocabulary of the claims
\* `log` was decoded into an event of this kind and its handling has begun
Handling(sig) == pulled > 0 /\ decode_raw_log(log).ok /\ log.sig = sig

\* the loop body ended normally for `log`: the loop is back at the stream, or
\* the stream has ended since
Completed == pulled > 0 /\ (pc = "next" \/ result = "Ok")

RecordsOf(index, t) == {r \in index : r.tokenId = t}

\* failures of the store, the platform or the network, as opposed to errors the
\* data causes
TransportErrors ==
    {"publish_error", "add_tweet_error", "connect_error", "db_error", "promote_error"}

IsBurn == Handling("Transfer") /\ log.from # ZeroAddress /\ log.to = ZeroAddress

IsOwnerChange == Handling("Transfer") /\ log.from # ZeroAddress /\ log.to # ZeroAddress

\* -------------------------------------------------------------------- C1
\* C1: a token never has two RedeemedRecords; a safe RedemptionRequested that
\* ran through on a token of the index leaves one record and no index row; a
\* safe redelivery (record there, row gone) adds no record and no row.
C1_RedemptionExclusive ==
    /\ \A t \in TokenIds : Cardinality(RecordsOf(RedeemedIndex, t)) <= 1
    /\ (Handling("RedeemTweet") /\ safe /\ Completed /\ log.tokenId \in DOMAIN pre.NftIndex)
          => /\ Cardinality(RecordsOf(RedeemedIndex, log.tokenId)) = 1
             /\ log.tokenId \notin DOMAIN NftIndex
    /\ (Handling("RedeemTweet") /\ RecordsOf(pre.RedeemedIndex, log.tokenId) # {}
            /\ log.tokenId \notin DOMAIN pre.NftIndex)
          => /\ RedeemedIndex = pre.RedeemedIndex
             /\ log.tokenId \notin DOMAIN NftIndex

\* the second delivery of a redemption has been handled to its end
C1_Witness ==
    /\ Handling("RedeemTweet") /\ safe
    /\ RecordsOf(pre.RedeemedIndex, log.tokenId) # {}
    /\ log.tokenId \notin DOMAIN pre.NftIndex
    /\ result = "row_count_error"

\* -------------------------------------------------------------------- C2
\* C2: a RedemptionRequested for a token without an index row publishes
\* nothing, changes no table and does not end the loop with the missing row's
\* error.
C2_NoRowRedemptionIsNoOp ==
    (Handling("RedeemTweet") /\ log.tokenId \notin DOMAIN pre.NftIndex)
        => /\ Snapshot = pre
           /\ result # "row_count_error"

C4_UnsafeIsDiscarded ==
    (Handling("RedeemTweet") /\ ~safe) =>
        /\ Snapshot = pre
        /\ user = NoValue
        /\ lock # "engine"
        /\ pc \in {"is_tweet_safe", "next", "returned"}
        /\ result \in {"running", "Ok"}

\* a rejected redemption of a token that is in the index has been discarded
C4_Witness ==
    /\ Handling("RedeemTweet") /\ ~safe /\ Completed
    /\ log.tokenId \in DOMAIN NftIndex

\* -------------------------------------------------------------------- C5
\* C5: a store or transport error never makes subscribe_to_nft_events return.
C5_TransportErrorKeepsLoop == result \notin TransportErrors

\* -------------------------------------------------------------------- C6
\* C6: a log of a known signature with a wrong layout makes the function
\* return an error; a log of an unknown signature changes nothing and the loop
\* goes on.
C6_DecodeMismatchHalts ==
    /\ (pulled > 0 /\ decode_raw_log(log).error = "bad_layout")
          => (pc = "returned" /\ result \notin {"running", "Ok"})
    /\ (pulled > 0 /\ decode_raw_log(log).error = "unknown_selector")
          => (Snapshot = pre /\ result \in {"running", "Ok"})

\* -------------------------------------------------------------------- C7
\* C7: a safe RedemptionRequested with a linked user that ran through on a
\* token of the index added one record for it, removed its row and added one to
\* the counter of the token's creator, and changed no other row or pending mint.
C7_RedemptionPostState ==
    (Handling("RedeemTweet") /\ safe /\ user # NoValue /\ Completed
        /\ log.tokenId \in DOMAIN pre.NftIndex)
      => /\ Cardinality(RedeemedIndex \ pre.RedeemedIndex) = 1
         /\ \A r \in RedeemedIndex \ pre.RedeemedIndex : r.tokenId = log.tokenId
         /\ pre.RedeemedIndex \subseteq RedeemedIndex
         /\ NftIndex = Remove(pre.NftIndex, log.tokenId)
         /\ haveBeenRedeemed =
               [pre.haveBeenRedeemed EXCEPT ![CreatorOf(log.tokenId)] = @ + 1]
         /\ pending_nfts = pre.pending_nfts

\* -------------------------------------------------------------------- C8
\* C8: a burn (from # zero, to = zero) that ran through removed the token's row
\* and changed nothing else, nothing at all when the row was absent; a missing
\* row is no error.
C8_Burn ==
    IsBurn =>
        /\ result \in {"running", "Ok"} \cup TransportErrors
        /\ Completed =>
              /\ NftIndex = Remove(pre.NftIndex, log.tokenId)
              /\ <<RedeemedIndex, haveBeenRedeemed, pending_nfts, tweets, posted>> =
                    <<pre.RedeemedIndex, pre.haveBeenRedeemed, pre.pending_nfts,
                      pre.tweets, pre.posted>>
        /\ ~Completed => Snapshot = pre

\* a burn was redelivered: the token was minted, its row is gone, no error
C8_Witness ==
    /\ IsBurn /\ Completed
    /\ log.tokenId \notin DOMAIN pre.NftIndex
    /\ TxHashOf(log.tokenId) \notin DOMAIN pending_nfts
    /\ RecordsOf(RedeemedIndex, log.tokenId) = {}

\* -------------------------------------------------------------------- C9
\* C9: a transfer between two non-zero addresses that ran through set the
\* owner of the token's row to `to` and changed nothing else; without a row it
\* created none and raised no error; and a MintConfirmed of a pending hash
\* creates the row with owner = recipient whatever transfers came before.
C9_OwnerChange ==
    /\ IsOwnerChange =>
          /\ result \in {"running", "Ok"} \cup TransportErrors
          /\ DOMAIN NftIndex = DOMAIN pre.NftIndex
          /\ Completed =>
                /\ \A t \in DOMAIN NftIndex :
                      NftIndex[t] = IF t = log.tokenId
                                    THEN [pre.NftIndex[t] EXCEPT !.userId = log.to]
                                    ELSE pre.NftIndex[t]
                /\ <<RedeemedIndex, haveBeenRedeemed, pending_nfts, tweets, posted>> =
                      <<pre.RedeemedIndex, pre.haveBeenRedeemed, pre.pending_nfts,
                        pre.tweets, pre.posted>>
          /\ ~Completed => Snapshot = pre
    /\ (Handling("NewTokenData") /\ Completed
            /\ log.transaction_hash \in DOMAIN pre.pending_nfts)
          => /\ log.tokenId \in DOMAIN NftIndex
             /\ NftIndex[log.tokenId].userId = log.to

\* a transfer arrived before the token's MintConfirmed and was ignored
C9_Witness ==
    /\ IsOwnerChange /\ Completed
    /\ log.tokenId \notin DOMAIN NftIndex
    /\ TxHashOf(log.tokenId) \in DOMAIN pending_nfts

\* ------------------------------------------------------------------- C10
\* C10: once a shutdown has been requested the engine takes no further log
\* from the stream.
C10_NoPullAfterShutdown == [][shutdown => pulled' = pulled]_vars

\* ------------------------------------------------------------------- C11
\* C11: when the handling of a RedemptionRequested has ended, with or without
\* an error, a record or a counter increment it made comes with the token's
\* row removed: the store is in the state before the event or in the state
\* after the whole of step 4.
C11_PartialFailureAtomic ==
    (Handling("RedeemTweet") /\ pc \in {"next", "returned"})
      => ((RedeemedIndex # pre.RedeemedIndex \/ haveBeenRedeemed # pre.haveBeenRedeemed)
            => log.tokenId \notin DOMAIN NftIndex)

\* ------------------------------------------------------------------- C12
\* C12: when the publication of a redemption returned an id, the record
\* inserted for that redemption carries this id as its tweetId.
C12_RecordCarriesPublication ==
    (Handling("RedeemTweet") /\ tweet_id # NoTweet)
      => \A r \in RedeemedIndex \ pre.RedeemedIndex : r.tweetId = tweet_id

\* ------------------------------------------------------------------- C13
\* C13: the engine changes the ownership index and the pending-mint register
\* only while it holds the shared lock.
C13_WritesUnderLock ==
    [][(NftIndex' # NftIndex \/ pending_nfts' # pending_nfts) => lock = "engine"]_vars

\* ------------------------------------------------------------------- C14
\* C14: a safe RedemptionRequested without a linked user that ran through on a
\* token of the index published nothing, added one record with the empty
\* publication reference, added one to the creator's counter and removed the
\* token's row.
C14_NoUserStillRedeems ==
    (Handling("RedeemTweet") /\ safe /\ user = NoValue /\ Completed
        /\ log.tokenId \in DOMAIN pre.NftIndex)
      => /\ posted = pre.posted
         /\ tweets = pre.tweets
         /\ Cardinality(RedeemedIndex \ pre.RedeemedIndex) = 1
         /\ \A r \in RedeemedIndex \ pre.RedeemedIndex :
               r.tokenId = log.tokenId /\ r.tweetId = EmptyTweetId
         /\ \E u \in Users :
               haveBeenRedeemed = [pre.haveBeenRedeemed EXCEPT ![u] = @ + 1]
         /\ log.tokenId \notin DOMAIN NftIndex

\* ------------------------------------------------------------------- C15
\* C15: a log is taken from the stream only when the loop is at
\* stream.next(), that is when no step of an earlier log's pipeline is pending
\* and the engine holds no lock; logs are taken one at a time.
C15_OneAtATime ==
    [][(pulled' # pulled \/ log' # log)
          => (pc = "next" /\ lock # "engine" /\ pulled' = pulled + 1)]_vars

\* a later log is in the middle of its store writes after an earlier one ran through
C15_Witness == pulled >= 2 /\ pc = "delete_nft" /\ RedeemedIndex # {}

\* ------------------------------------------------------------------- C16
\* C16: every RedeemedRecord names the creator of its token, and a redemption
\* that ran through added one to that creator's counter, whatever transfers
\* the token went through.
C16_CreatorAttribution ==
    /\ \A r \in RedeemedIndex : r.creatorUserId = CreatorOf(r.tokenId)
    /\ (Handling("RedeemTweet") /\ safe /\ Completed
            /\ log.tokenId \in DOMAIN pre.NftIndex)
          => haveBeenRedeemed[CreatorOf(log.tokenId)] =
                pre.haveBeenRedeemed[CreatorOf(log.tokenId)] + 1

\* ------------------------------------------------------------------- C17
\* C17: no task waits for a remote call (safety gate, publication, store
\* connection, OAuth exchange, account lookup, chain transaction) with the
\* shared lock held; the engine does not ask for the lock while holding it;
\* the engine holds no lock at the loop head or after its return, and a
\* handler that has ended holds none.
C17_LockDiscipline ==
    /\ ~(lock = "http" /\ http_pc \in {"cb_authorize_token", "cb_get_user_x_info",
                                       "cb_send_eth", "mint_nft"})
    /\ ~(lock = "engine" /\ pc \in {"is_tweet_safe", "raw_tweet", "connect", "query_one",
                                    "insert_redeemed", "update_user", "delete_nft",
                                    "transfer_connect", "transfer_delete",
                                    "transfer_update"})
    /\ ~(lock = "engine" /\ pc \in {"user_lock", "tweet_lock", "promote_lock"})
    /\ (pc \in {"next", "returned"} => lock # "engine")
    /\ (http_pc = "idle" => lock # "http")

\* ------------------------------------------------------------------- C18
\* C18: whatever token id a RedemptionRequested or OwnershipTransferred log
\* carries, turning it into the store's key does not abort the engine, and two
\* token ids that both have a key are the same id.
C18_TokenIdFits ==
    /\ result # "panic"
    /\ \A a, b \in AllTokenIds :
          (ParseI32Ok(a) /\ ParseI32Ok(b) /\ a # b) => ParseI32(a) # ParseI32(b)

====
